---------------------------- MODULE Spec2Model ----------------------------
(***************************************************************************)
(* Model of the tongue gesture detector of Koodkoosaurus:                  *)
(* MultiTongueSwitch (src/tongue_switch_2p.py), the two-face detector      *)
(* whose worker thread publishes per-slot state, direction and a preview   *)
(* under one lock, and whose facade is polled by the game loop.            *)
(*                                                                         *)
(* Time is counted in ticks; Debounce is debounce_s in ticks.  A frame is  *)
(* identified by its number (1, 2, ...); the preview image rendered from   *)
(* frame n is modelled by n.                                               *)
(***************************************************************************)
EXTENDS Integers, Sequences, FiniteSets, TLC

(* ------------------------------ bounds -------------------------------- *)
MaxClock  == 4      \* the clock stops ticking here
MaxFrames == 3      \* number of frames the camera delivers while edges are polled
PubFrames == 2      \* number of frames the camera delivers in Spec
MaxFaces  == 3      \* number of faces an uncapped landmark model may return
FrameW    == 64     \* frame width  (pixels)
FrameH    == 48     \* frame height (pixels)
MaxCalls  == 4      \* number of facade calls that are logged
Radius    == 3      \* largest offset of a centroid from the mouth center, per axis
MaxDead   == 3      \* largest dead zone (pixels)
MaxCopies == 2      \* number of get_preview_rgb calls whose result the consumer keeps
MaxMouthW == 20     \* widest inner-lip rectangle (pixels)
MaxPx     == 8      \* largest number of tongue pixels in a mask

(* ------------------------- program constants -------------------------- *)
MaxPlayers == 2     \* max_players
Debounce   == 1     \* debounce_s, in ticks
Epoch      == 2     \* first value of time.time(): far above debounce_s
MinOpen    == 8     \* min_open_px
Pad        == 6     \* pad
FracDen    == 100   \* frac_threshold is FracNum / FracDen
DeadNum    == 10    \* dir_dead_frac is DeadNum / DeadDen
DeadDen    == 100

None    == "None"   \* Python's None where a string is expected
NoFrame == 0        \* Python's None where a preview frame is expected
Slots == 0 .. (MaxPlayers - 1)
Directions == {"CENTER", "UP", "DOWN", "LEFT", "RIGHT"}

Max(a, b) == IF a >= b THEN a ELSE b
Min(a, b) == IF a <= b THEN a ELSE b
Abs(a)    == IF a >= 0 THEN a ELSE -a

(* --------------------------- input domains ---------------------------- *)
\* bounding rectangles (cv2.boundingRect of the inner-lip polygon) that the
\* landmark model may report; x = -30 lies left of the frame
Rect(xv) == [x |-> xv, y |-> 10, ww |-> 10, hh |-> 8]
MouthRects == { Rect(xv) : xv \in {-30, 8, 26, 44} }
\* vertical lip distance |lms[14].y - lms[13].y| in pixels
OpenAmounts == {7, 8}
\* <<tongue_px, mouth_px>> pixel counts of the two masks
PixelCounts == { <<0, 100>>, <<5, 100>>, <<6, 100>> }
\* centroid of the tongue mask in box-local coordinates
Centroids == { <<11, 10>>, <<3, 10>>, <<11, 18>> }
\* where cv2.error is raised inside the try block of one face
ErrSteps == {"none", "early", "moments"}
\* configured frac_threshold numerators (0.0 and the default 0.06)
FracNums == {0, 6}
DefaultFracNum == 6

RECURSIVE SeqsUpTo(_, _)
SeqsUpTo(S, n) ==
    IF n = 0 THEN { <<>> }
    ELSE LET shorter == SeqsUpTo(S, n - 1)
         IN  shorter \cup { Append(q, e) : q \in { r \in shorter : Len(r) = n - 1 }, e \in S }

VARIABLES
    enabled,          \* self._enabled  (TONGUE_DEPS_OK)
    fracNum,          \* self._frac_th * FracDen
    show,             \* self._show
    state,            \* self._state
    prev_state,       \* self._prev_state
    last_event_time,  \* self._last_event_time
    direction,        \* self._direction
    preview,          \* self._preview: NoFrame or the frame it was rendered from
    lock,             \* holder of self._lock: "free" or "worker"
    stopFlag,         \* self._stop
    pc,               \* position of the worker thread
    cam,              \* capture device: "none", "open", "failed", "released"
    frameNo,          \* number of the frame the worker is processing
    res,              \* res.multi_face_landmarks of that frame
    k,                \* index of the face loop (1-based)
    faces,            \* the local list faces
    pi,               \* index of the publish loop
    cpc,              \* position of the consumer: "idle", or "join" inside stop()
    clock,            \* time.time()
    slotFrame,        \* history: frame that state[i], direction[i] were written from
    bound,            \* history: slot i had a subject in the frame it was last written from
    before,           \* history: state and direction when the worker took the lock
    edgeTimes,        \* history: the times of the consume_rising_edge(i) calls that returned True
    sawFalse,         \* history: state[i] has been False since the last of them
    afterStop,        \* history: reads begun and snapshots published since the stop flag was set
    log               \* history: the calls of a scenario (facade calls, or applications of
                      \* _classify_direction) and their results

config   == <<enabled, fracNum, show>>
snapshot == <<state, direction, preview>>
edgeVars == <<prev_state, last_event_time>>
worker   == <<pc, cam, frameNo, res, k, faces, pi>>
consumer == <<cpc>>
history  == <<slotFrame, bound, before, edgeTimes, sawFalse, afterStop>>
core     == <<config, snapshot, edgeVars, lock, stopFlag, worker, consumer, clock, history>>
vars     == <<core, log>>
(* --------------------------- pure functions --------------------------- *)
\* variant: the dead zone includes its boundary
_classify_direction_InclusiveDead(cx, cy, mx, my, dead_px) ==
    LET dx == cx - mx
        dy == cy - my
    IN  IF Abs(dx) <= dead_px /\ Abs(dy) <= dead_px THEN "CENTER"
        ELSE IF Abs(dx) >= Abs(dy)
             THEN (IF dx > 0 THEN "RIGHT" ELSE "LEFT")
             ELSE (IF dy > 0 THEN "DOWN" ELSE "UP")

\* variant: equal magnitudes resolve to the vertical axis
_classify_direction_TiesVertical(cx, cy, mx, my, dead_px) ==
    LET dx == cx - mx
        dy == cy - my
    IN  IF Abs(dx) < dead_px /\ Abs(dy) < dead_px THEN "CENTER"
        ELSE IF Abs(dx) > Abs(dy)
             THEN (IF dx > 0 THEN "RIGHT" ELSE "LEFT")
             ELSE (IF dy > 0 THEN "DOWN" ELSE "UP")

\* variant: the vertical labels are exchanged
_classify_direction_VerticalSwapped(cx, cy, mx, my, dead_px) ==
    LET dx == cx - mx
        dy == cy - my
    IN  IF Abs(dx) < dead_px /\ Abs(dy) < dead_px THEN "CENTER"
        ELSE IF Abs(dx) >= Abs(dy)
             THEN (IF dx > 0 THEN "RIGHT" ELSE "LEFT")
             ELSE (IF dy > 0 THEN "UP" ELSE "DOWN")

\* _classify_direction(cx, cy, mx, my, dead_px)
_classify_direction(cx, cy, mx, my, dead_px) ==
    LET dx == cx - mx
        dy == cy - my
    IN  IF Abs(dx) < dead_px /\ Abs(dy) < dead_px THEN "CENTER"
        ELSE IF Abs(dx) >= Abs(dy)
             THEN (IF dx > 0 THEN "RIGHT" ELSE "LEFT")
             ELSE (IF dy > 0 THEN "DOWN" ELSE "UP")

\* the padded mouth box clamped to the frame: x0, y0, x1, y1
MouthBox(r) ==
    [x0 |-> Max(0, r.x - Pad),              y0 |-> Max(0, r.y - Pad),
     x1 |-> Min(FrameW, r.x + r.ww + Pad),  y1 |-> Min(FrameH, r.y + r.hh + Pad)]

\* variant: the dead zone is a fraction of the smaller side of the box
DeadPx_UsesMin(b) == (DeadNum * Max(1, Min(b.x1 - b.x0, b.y1 - b.y0))) \div DeadDen

\* int(self._dead_frac * max(1, max(x1-x0, y1-y0)))
DeadPx(b) == (DeadNum * Max(1, Max(b.x1 - b.x0, b.y1 - b.y0))) \div DeadDen

\* variant: a fraction equal to the threshold does not count
TonguePresent_Exclusive(open_px, tongue_px, mouth_px, fnum) ==
    /\ open_px >= MinOpen
    /\ tongue_px * FracDen > fnum * Max(1, mouth_px)

\* (open_px >= self._min_open) and (frac >= self._frac_th),
\* with frac = tongue_px / max(1, mouth_px)
TonguePresent(open_px, tongue_px, mouth_px, fnum) ==
    /\ open_px >= MinOpen
    /\ tongue_px * FracDen >= fnum * Max(1, mouth_px)

\* variant: mx and my are set before the box is tested, so that a face with
\* an empty box is appended
FaceReading_KeepsEmpty(r, open_px, px, cen, err, fnum) ==
    LET b  == MouthBox(r)
        mx == (b.x0 + b.x1) \div 2
        my == (b.y0 + b.y1) \div 2
    IN  IF ~(b.x1 > b.x0 /\ b.y1 > b.y0) \/ err = "early"
        THEN [located |-> TRUE, mx |-> mx, my |-> my, tongue |-> FALSE, direction |-> None,
              raised |-> err = "early"]
        ELSE LET present == TonguePresent(open_px, px[1], px[2], fnum)
                 dir == IF present /\ px[1] > 0 /\ err # "moments"
                        THEN _classify_direction(b.x0 + cen[1], b.y0 + cen[2], mx, my, DeadPx(b))
                        ELSE None
             IN  [located |-> TRUE, mx |-> mx, my |-> my, tongue |-> present, direction |-> dir,
                  raised |-> err = "moments"]

\* the body of the loop over the faces: what one face leaves in
\* tongue_present, direction, mx, my (located = FALSE: mx is None and the
\* face is not appended); raised is history: cv2.error was raised in the try
\* block of this face
FaceReading(r, open_px, px, cen, err, fnum) ==
    LET b       == MouthBox(r)
        skipped == [located |-> FALSE, mx |-> 0, my |-> 0, tongue |-> FALSE, direction |-> None,
                    raised |-> err = "early"]
    IN  IF ~(b.x1 > b.x0 /\ b.y1 > b.y0) THEN skipped
        ELSE IF err = "early" THEN skipped
        ELSE LET present == TonguePresent(open_px, px[1], px[2], fnum)
                 mx == (b.x0 + b.x1) \div 2
                 my == (b.y0 + b.y1) \div 2
                 dir == IF present /\ px[1] > 0 /\ err # "moments"
                        THEN _classify_direction(b.x0 + cen[1], b.y0 + cen[2], mx, my, DeadPx(b))
                        ELSE None
             IN  [located |-> TRUE, mx |-> mx, my |-> my, tongue |-> present, direction |-> dir,
                  raised |-> err = "moments"]

\* res.multi_face_landmarks[:self._maxp]
Considered(lms) == SubSeq(lms, 1, Min(Len(lms), MaxPlayers))

\* faces.sort(key=lambda d: d["mx"]): a stable sort, ascending
RECURSIVE InsertByMx(_, _)
InsertByMx(sorted, f) ==
    IF sorted = <<>> THEN <<f>>
    ELSE IF sorted[Len(sorted)].mx <= f.mx THEN Append(sorted, f)
    ELSE Append(InsertByMx(SubSeq(sorted, 1, Len(sorted) - 1), f), sorted[Len(sorted)])

RECURSIVE SortFaces(_)
SortFaces(fs) ==
    IF fs = <<>> THEN <<>>
    ELSE InsertByMx(SortFaces(SubSeq(fs, 1, Len(fs) - 1)), fs[Len(fs)])

\* variants of the test: without the state, without the debounce, and with
\* an inclusive debounce comparison
ConsumeCond_NoState(st, pv, now, last) == ~pv /\ (now - last) > Debounce

ConsumeCond_NoDebounce(st, pv, now, last) == st /\ ~pv

ConsumeCond_Inclusive(st, pv, now, last) == st /\ ~pv /\ (now - last) >= Debounce

\* the test of consume_rising_edge
ConsumeCond(st, pv, now, last) == st /\ ~pv /\ (now - last) > Debounce

\* variant: a poll that returns False records the opposite of what it saw
EdgePrev_Inverted(st, pv, hit) == IF hit THEN TRUE ELSE ~st

\* variant: a returned edge clears self._prev_state[i]
EdgePrev_Cleared(st, pv, hit) == IF hit THEN FALSE ELSE st

\* variant: a poll that returns False does not record the state it saw
EdgePrev_NoTrack(st, pv, hit) == IF hit THEN TRUE ELSE pv

\* variant: a returned edge is not recorded in self._prev_state[i]
EdgePrev_KeepsPrev(st, pv, hit) == IF hit THEN pv ELSE st

\* variant: a poll that finds an edge it may not return yet leaves it pending
EdgePrev_DefersEdge(st, pv, hit) == IF hit THEN TRUE ELSE (st /\ pv)

\* what consume_rising_edge leaves in self._prev_state[i]
EdgePrev(st, pv, hit) == IF hit THEN TRUE ELSE st

\* variant: with hysteresis, a slot that is on stays on while it has a subject
SlotWrite_Sticky(fs, i) ==
    IF i < Len(fs)
    THEN [state |-> fs[i + 1].tongue \/ state[i], direction |-> fs[i + 1].direction]
    ELSE [state |-> FALSE, direction |-> None]

\* variant: a slot without a subject keeps its last known values
SlotWrite_KeepsLast(fs, i) ==
    IF i < Len(fs)
    THEN [state |-> fs[i + 1].tongue, direction |-> fs[i + 1].direction]
    ELSE [state |-> state[i], direction |-> direction[i]]

\* what the publish loop writes for slot i
SlotWrite(fs, i) ==
    IF i < Len(fs)
    THEN [state |-> fs[i + 1].tongue, direction |-> fs[i + 1].direction]
    ELSE [state |-> FALSE, direction |-> None]

(* ------------------------------- Init --------------------------------- *)
\* the locals of one loop iteration before the iteration assigns them
NoSnapshot == [state |-> [i \in Slots |-> FALSE], direction |-> [i \in Slots |-> None]]

\* the state after __init__, for the given sets of configurations
InitCore(depsOk, fracNums, shows) ==
    /\ enabled \in depsOk
    /\ fracNum \in fracNums
    /\ show \in shows
    /\ state = [i \in Slots |-> FALSE]
    /\ prev_state = [i \in Slots |-> FALSE]
    /\ last_event_time = [i \in Slots |-> 0]
    /\ direction = [i \in Slots |-> None]
    /\ preview = NoFrame
    /\ lock = "free"
    /\ stopFlag = FALSE
    /\ pc = "unstarted"
    /\ cam = "none"
    /\ frameNo = 0
    /\ res = <<>>
    /\ k = 1
    /\ faces = <<>>
    /\ pi = 0
    /\ cpc = "idle"
    /\ clock = Epoch
    /\ slotFrame = [i \in Slots |-> 0]
    /\ bound = [i \in Slots |-> FALSE]
    /\ before = NoSnapshot
    /\ edgeTimes = [i \in Slots |-> <<>>]
    /\ sawFalse = [i \in Slots |-> TRUE]
    /\ afterStop = [reads |-> 0, pubs |-> 0]

InitWith(depsOk, fracNums, shows) == InitCore(depsOk, fracNums, shows) /\ log = <<>>

(* ------------------------------ facade -------------------------------- *)
ThreadStarted == pc # "unstarted"
ThreadAlive   == pc \notin {"unstarted", "cam_failed", "crashed", "done"}

\* what start() does for its caller: Thread.start() raises RuntimeError on a
\* thread that was started before
StartRet == IF enabled /\ ThreadStarted THEN "RuntimeError" ELSE "ok"

\* variant: start() does not test self._enabled
StartCall_Unguarded ==
    /\ cpc = "idle"
    /\ pc' = IF ~ThreadStarted THEN "open" ELSE pc
    /\ UNCHANGED <<config, snapshot, edgeVars, lock, stopFlag, cam, frameNo, res, k, faces, pi,
                   consumer, clock, history>>

\* variant: every start() runs _run in a new thread
StartCall_Restarts ==
    /\ cpc = "idle"
    /\ pc' = IF enabled THEN "open" ELSE pc
    /\ UNCHANGED <<config, snapshot, edgeVars, lock, stopFlag, cam, frameNo, res, k, faces, pi,
                   consumer, clock, history>>

\* start(): Thread.start() when enabled (a second Thread.start() raises and
\* starts nothing)
StartCall ==
    /\ cpc = "idle"
    /\ pc' = IF enabled /\ ~ThreadStarted THEN "open" ELSE pc
    /\ UNCHANGED <<config, snapshot, edgeVars, lock, stopFlag, cam, frameNo, res, k, faces, pi,
                   consumer, clock, history>>

Start == StartCall /\ UNCHANGED log

\* stop() up to the join: sets the flag; Thread.join() raises RuntimeError on
\* a thread that was never started
StopRaises == enabled /\ ~ThreadStarted

\* what stop() does for its caller
StopRet == IF StopRaises THEN "RuntimeError" ELSE "ok"

StopCall ==
    /\ cpc = "idle"
    /\ stopFlag' = IF enabled THEN TRUE ELSE stopFlag
    /\ cpc' = IF enabled /\ ThreadStarted THEN "join" ELSE cpc
    /\ UNCHANGED <<config, snapshot, edgeVars, lock, worker, clock, history>>

Stop == StopCall /\ UNCHANGED log

\* variant: join() without a timeout returns only when the thread has ended
JoinReturn_Unbounded ==
    /\ cpc = "join"
    /\ ~ThreadAlive
    /\ cpc' = "idle"
    /\ UNCHANGED <<config, snapshot, edgeVars, lock, stopFlag, worker, clock, history>>
    /\ UNCHANGED log

\* join(timeout=1.0) returns when the thread has ended or the timeout expired
JoinReturn ==
    /\ cpc = "join"
    /\ cpc' = "idle"
    /\ UNCHANGED <<config, snapshot, edgeVars, lock, stopFlag, worker, clock, history>>
    /\ UNCHANGED log

\* the value get_state(i) returns
GetStateRet(i) == IF enabled THEN state[i] ELSE FALSE

GetStateCall(i) ==
    /\ cpc = "idle"
    /\ enabled => lock = "free"
    /\ UNCHANGED core

GetState(i) == GetStateCall(i) /\ UNCHANGED log

\* the value get_direction(i) returns
GetDirectionRet(i) == IF enabled THEN direction[i] ELSE None

GetDirectionCall(i) ==
    /\ cpc = "idle"
    /\ enabled => lock = "free"
    /\ UNCHANGED core

GetDirection(i) == GetDirectionCall(i) /\ UNCHANGED log

\* the value get_preview_rgb() returns: a copy of the preview, or None
GetPreviewRet == IF enabled THEN preview ELSE NoFrame

GetPreviewCall ==
    /\ cpc = "idle"
    /\ enabled => lock = "free"
    /\ UNCHANGED core

GetPreview == GetPreviewCall /\ UNCHANGED log

\* the value consume_rising_edge(i) returns when it reads the clock at now
ConsumeRet(i, now) ==
    IF enabled THEN ConsumeCond(state[i], prev_state[i], now, last_event_time[i]) ELSE FALSE

\* variant: a returned edge consumes the state: self._state[i] is cleared
Consume_ClearsState(i) ==
    /\ cpc = "idle"
    /\ enabled => lock = "free"
    /\ IF ~enabled
       THEN UNCHANGED <<state, prev_state, last_event_time, edgeTimes, sawFalse>>
       ELSE LET now == clock
                hit == ConsumeRet(i, now)
            IN  /\ state' = [state EXCEPT ![i] = IF hit THEN FALSE ELSE @]
                /\ prev_state' = [prev_state EXCEPT ![i] = EdgePrev(state[i], prev_state[i], hit)]
                /\ last_event_time' = [last_event_time EXCEPT ![i] = IF hit THEN now ELSE @]
                /\ edgeTimes' = [edgeTimes EXCEPT ![i] = IF hit THEN Append(@, now) ELSE @]
                /\ sawFalse' = [sawFalse EXCEPT ![i] = @]
    /\ UNCHANGED <<config, direction, preview, lock, stopFlag, worker, cpc, clock, slotFrame, bound,
                   before, afterStop>>

\* consume_rising_edge(i): now = time.time(), then the block under the lock
\* (the time the call waits for the lock is not modelled)
Consume(i) ==
    /\ cpc = "idle"
    /\ enabled => lock = "free"
    /\ IF ~enabled
       THEN UNCHANGED <<prev_state, last_event_time, edgeTimes, sawFalse>>
       ELSE LET now == clock
                hit == ConsumeRet(i, now)
            IN  /\ prev_state' = [prev_state EXCEPT ![i] = EdgePrev(state[i], prev_state[i], hit)]
                /\ last_event_time' = [last_event_time EXCEPT ![i] = IF hit THEN now ELSE @]
                /\ edgeTimes' = [edgeTimes EXCEPT ![i] = IF hit THEN Append(@, now) ELSE @]
                /\ sawFalse' = [sawFalse EXCEPT ![i] = IF hit THEN ~state[i] ELSE @]
    /\ UNCHANGED <<config, snapshot, lock, stopFlag, worker, cpc, clock, slotFrame, bound, before,
                   afterStop>>

ConsumeRisingEdge(i) == Consume(i) /\ UNCHANGED log

(* ------------------------------ worker -------------------------------- *)
\* variant: the except clause does not return, the loop is entered
OpenCamera_NoReturn ==
    /\ pc = "open"
    /\ \E opened \in BOOLEAN :
         /\ cam' = IF opened THEN "open" ELSE "failed"
         /\ pc' = "loop"
    /\ UNCHANGED <<config, snapshot, edgeVars, lock, stopFlag, frameNo, res, k, faces, pi,
                   consumer, clock, history>>
    /\ UNCHANGED log

\* _run up to the loop: _open_camera() returns a device or raises
OpenCamera ==
    /\ pc = "open"
    /\ \E opened \in BOOLEAN :
         IF opened THEN cam' = "open" /\ pc' = "loop"
                   ELSE cam' = "failed" /\ pc' = "cam_failed"
    /\ UNCHANGED <<config, snapshot, edgeVars, lock, stopFlag, frameNo, res, k, faces, pi,
                   consumer, clock, history>>
    /\ UNCHANGED log

\* variant: the loop does not test the stop flag
LoopTest_IgnoresFlag ==
    /\ pc = "loop"
    /\ pc' = "read"
    /\ UNCHANGED <<config, snapshot, edgeVars, lock, stopFlag, cam, frameNo, res, k, faces, pi,
                   consumer, clock, history>>
    /\ UNCHANGED log

\* while not self._stop.is_set()
LoopTest ==
    /\ pc = "loop"
    /\ pc' = IF stopFlag THEN "release" ELSE "read"
    /\ UNCHANGED <<config, snapshot, edgeVars, lock, stopFlag, cam, frameNo, res, k, faces, pi,
                   consumer, clock, history>>
    /\ UNCHANGED log

\* ok, frame_bgr = cap.read() with ok true; the camera delivers maxFrames frames
ReadFrame(maxFrames) ==
    /\ pc = "read"
    /\ frameNo < maxFrames
    /\ frameNo' = frameNo + 1
    /\ pc' = "detect"
    /\ afterStop' = [afterStop EXCEPT !.reads = IF stopFlag THEN @ + 1 ELSE @]
    /\ UNCHANGED <<config, snapshot, edgeVars, lock, stopFlag, cam, res, k, faces, pi,
                   consumer, clock, slotFrame, bound, before, edgeTimes, sawFalse>>
    /\ UNCHANGED log

\* variant: a failed read leaves the loop
ReadFail_Breaks ==
    /\ pc = "read"
    /\ pc' = "release"
    /\ afterStop' = [afterStop EXCEPT !.reads = IF stopFlag THEN @ + 1 ELSE @]
    /\ UNCHANGED <<config, snapshot, edgeVars, lock, stopFlag, cam, frameNo, res, k, faces, pi,
                   consumer, clock, slotFrame, bound, before, edgeTimes, sawFalse>>
    /\ UNCHANGED log

\* cap.read() with ok false: time.sleep(0.01); continue
ReadFail ==
    /\ pc = "read"
    /\ pc' = "loop"
    /\ afterStop' = [afterStop EXCEPT !.reads = IF stopFlag THEN @ + 1 ELSE @]
    /\ UNCHANGED <<config, snapshot, edgeVars, lock, stopFlag, cam, frameNo, res, k, faces, pi,
                   consumer, clock, slotFrame, bound, before, edgeTimes, sawFalse>>
    /\ UNCHANGED log

\* res = mesh.process(...); faces = []; the landmark model returns one of lmSeqs
Detect(lmSeqs) ==
    /\ pc = "detect"
    /\ \E lms \in lmSeqs :
         /\ res' = lms
         /\ k' = 1
         /\ faces' = <<>>
         /\ pc' = "faces"
    /\ UNCHANGED <<config, snapshot, edgeVars, lock, stopFlag, cam, frameNo, pi,
                   consumer, clock, history>>
    /\ UNCHANGED log

\* an exception other than cv2.error while the frame is processed ends _run
FrameRaises ==
    /\ pc \in {"detect", "faces"}
    /\ pc' = "crashed"
    /\ res' = <<>> /\ faces' = <<>> /\ k' = 1
    /\ UNCHANGED <<config, snapshot, edgeVars, lock, stopFlag, cam, frameNo, pi,
                   consumer, clock, history>>
    /\ UNCHANGED log

\* one iteration of: for face in res.multi_face_landmarks[:self._maxp]
ProcessFace(opens, pixels, cens, errs) ==
    /\ pc = "faces"
    /\ k <= Len(Considered(res))
    /\ \E open_px \in opens, px \in pixels, cen \in cens, err \in errs :
         LET f == FaceReading(Considered(res)[k], open_px, px, cen, err, fracNum)
         IN  faces' = IF f.located THEN Append(faces, f) ELSE faces
    /\ k' = k + 1
    /\ UNCHANGED <<config, snapshot, edgeVars, lock, stopFlag, pc, cam, frameNo, res, pi,
                   consumer, clock, history>>
    /\ UNCHANGED log

\* faces.sort(key=lambda d: d["mx"])
SortStep ==
    /\ pc = "faces"
    /\ k > Len(Considered(res))
    /\ faces' = SortFaces(faces)
    /\ pc' = "acquire"
    /\ UNCHANGED <<config, snapshot, edgeVars, lock, stopFlag, cam, frameNo, res, k, pi,
                   consumer, clock, history>>
    /\ UNCHANGED log

\* with self._lock:
Acquire ==
    /\ pc = "acquire"
    /\ lock = "free"
    /\ lock' = "worker"
    /\ pi' = 0
    /\ pc' = "publish"
    /\ before' = [state |-> state, direction |-> direction]
    /\ UNCHANGED <<config, snapshot, edgeVars, stopFlag, cam, frameNo, res, k, faces,
                   consumer, clock, slotFrame, bound, edgeTimes, sawFalse, afterStop>>
    /\ UNCHANGED log

\* one iteration of: for i in range(self._maxp)
PublishSlot ==
    /\ pc = "publish"
    /\ pi < MaxPlayers
    /\ LET w == SlotWrite(faces, pi)
       IN  /\ state' = [state EXCEPT ![pi] = w.state]
           /\ direction' = [direction EXCEPT ![pi] = w.direction]
           /\ sawFalse' = [sawFalse EXCEPT ![pi] = @ \/ ~w.state]
    /\ slotFrame' = [slotFrame EXCEPT ![pi] = frameNo]
    /\ bound' = [bound EXCEPT ![pi] = pi < Len(faces)]
    /\ pi' = pi + 1
    /\ UNCHANGED <<config, preview, edgeVars, lock, stopFlag, pc, cam, frameNo, res, k, faces,
                   consumer, clock, before, edgeTimes, afterStop>>
    /\ UNCHANGED log

\* variant: the preview is published and the lock is not released
PublishPreviewStep_KeepsLock ==
    /\ pc = "publish"
    /\ pi = MaxPlayers
    /\ preview' = frameNo
    /\ pc' = "show"
    /\ res' = <<>> /\ faces' = <<>> /\ k' = 1 /\ pi' = 0
    /\ before' = NoSnapshot
    /\ afterStop' = [afterStop EXCEPT !.pubs = IF stopFlag THEN @ + 1 ELSE @]
    /\ UNCHANGED <<config, state, direction, edgeVars, lock, stopFlag, cam, frameNo,
                   consumer, clock, slotFrame, bound, edgeTimes, sawFalse>>

\* small = cv2.resize(...); self._preview = cv2.cvtColor(...); the lock is
\* released and the iteration's locals (res, faces, ...) are dead
PublishPreviewStep ==
    /\ pc = "publish"
    /\ pi = MaxPlayers
    /\ preview' = frameNo
    /\ lock' = "free"
    /\ pc' = "show"
    /\ res' = <<>> /\ faces' = <<>> /\ k' = 1 /\ pi' = 0
    /\ before' = NoSnapshot
    /\ afterStop' = [afterStop EXCEPT !.pubs = IF stopFlag THEN @ + 1 ELSE @]
    /\ UNCHANGED <<config, state, direction, edgeVars, stopFlag, cam, frameNo,
                   consumer, clock, slotFrame, bound, edgeTimes, sawFalse>>

PublishPreview == PublishPreviewStep /\ UNCHANGED log

\* variant: the exception leaves the lock held
PreviewRaises_KeepsLock ==
    /\ pc = "publish"
    /\ pi = MaxPlayers
    /\ pc' = "crashed"
    /\ res' = <<>> /\ faces' = <<>> /\ k' = 1 /\ pi' = 0
    /\ before' = NoSnapshot
    /\ UNCHANGED <<config, snapshot, edgeVars, lock, stopFlag, cam, frameNo,
                   consumer, clock, slotFrame, bound, edgeTimes, sawFalse, afterStop>>
    /\ UNCHANGED log

\* cv2.resize or cv2.cvtColor raises: the with block releases the lock, _run ends
PreviewRaises ==
    /\ pc = "publish"
    /\ pi = MaxPlayers
    /\ lock' = "free"
    /\ pc' = "crashed"
    /\ res' = <<>> /\ faces' = <<>> /\ k' = 1 /\ pi' = 0
    /\ before' = NoSnapshot
    /\ UNCHANGED <<config, snapshot, edgeVars, stopFlag, cam, frameNo,
                   consumer, clock, slotFrame, bound, edgeTimes, sawFalse, afterStop>>
    /\ UNCHANGED log

\* if self._show: imshow, waitKey; Esc sets the stop flag and leaves the loop
ShowStep ==
    /\ pc = "show"
    /\ \E esc \in BOOLEAN :
         IF show /\ esc THEN stopFlag' = TRUE /\ pc' = "release"
                        ELSE stopFlag' = stopFlag /\ pc' = "loop"
    /\ UNCHANGED <<config, snapshot, edgeVars, lock, cam, frameNo, res, k, faces, pi,
                   consumer, clock, history>>
    /\ UNCHANGED log

\* cap.release()
Release ==
    /\ pc = "release"
    /\ cam' = "released"
    /\ pc' = "done"
    /\ UNCHANGED <<config, snapshot, edgeVars, lock, stopFlag, frameNo, res, k, faces, pi,
                   consumer, clock, history>>
    /\ UNCHANGED log

\* time passes
Tick(maxClock) ==
    /\ clock < maxClock
    /\ clock' = clock + 1
    /\ UNCHANGED <<config, snapshot, edgeVars, lock, stopFlag, worker, consumer, history>>
    /\ UNCHANGED log

(* --------------------------- specifications --------------------------- *)
\* the steps of the worker that take no input
WorkerSteps ==
    \/ OpenCamera
    \/ LoopTest
    \/ ReadFail
    \/ FrameRaises
    \/ SortStep
    \/ Acquire
    \/ PublishSlot
    \/ PublishPreview
    \/ PreviewRaises
    \/ ShowStep
    \/ Release

\* the facade calls that read the snapshot
Readers ==
    \/ \E i \in Slots : GetState(i)
    \/ \E i \in Slots : GetDirection(i)
    \/ GetPreview

\* what the landmark model returns when it honours max_num_faces = max_players
CappedFaces == SeqsUpTo({Rect(-30), Rect(8), Rect(44)}, MaxPlayers)

\* Spec: the worker on every kind of face, with the lifecycle calls and the
\* readers; no time passes and no edge is consumed
Init == InitWith(BOOLEAN, FracNums, BOOLEAN)

Next ==
    \/ Start
    \/ Stop
    \/ JoinReturn
    \/ Readers
    \/ WorkerSteps
    \/ ReadFrame(PubFrames)
    \/ Detect(CappedFaces)
    \/ ProcessFace(OpenAmounts, PixelCounts, Centroids, ErrSteps)

Spec == Init /\ [][Next]_vars

\* SpecEdge: the consumer polling while time passes; every face is well in
\* frame and is segmented without error, with the default threshold
InitEdge == InitWith(BOOLEAN, {DefaultFracNum}, {FALSE})

PlainFaces == SeqsUpTo({Rect(8), Rect(44)}, MaxPlayers)

NextEdge ==
    \/ Start
    \/ Stop
    \/ JoinReturn
    \/ Readers
    \/ \E i \in Slots : ConsumeRisingEdge(i)
    \/ Tick(MaxClock)
    \/ WorkerSteps
    \/ ReadFrame(MaxFrames)
    \/ Detect(PlainFaces)
    \/ ProcessFace({MinOpen}, {<<0, 100>>, <<6, 100>>}, {<<11, 10>>}, {"none"})

SpecEdge == InitEdge /\ [][NextEdge]_vars

\* SpecAssign: the assignment of faces to slots when the landmark model may
\* return more faces than max_players; every face in frame is segmented
\* without error
InitAssign == InitWith({TRUE}, {DefaultFracNum}, {FALSE})

NextAssign ==
    \/ Start
    \/ Stop
    \/ JoinReturn
    \/ Readers
    \/ WorkerSteps
    \/ ReadFrame(PubFrames)
    \/ Detect(SeqsUpTo(MouthRects, MaxFaces))
    \/ ProcessFace({MinOpen}, {<<0, 100>>, <<6, 100>>}, {<<11, 10>>}, {"none"})

SpecAssign == InitAssign /\ [][NextAssign]_vars

\* SpecScenario: the camera delivers as many frames as Script is long, spaced
\* debounce_s apart; the face of slot 0 shows the gesture as Script says; the
\* consumer calls consume_rising_edge(0) once after each publish
Script   == <<FALSE, FALSE, TRUE, TRUE, TRUE, FALSE, TRUE>>
Expected == <<FALSE, FALSE, TRUE, FALSE, FALSE, FALSE, TRUE>>

InitScenario == InitWith({TRUE}, {DefaultFracNum}, {FALSE})

ScenarioStart == Start /\ ~ThreadStarted

ScenarioOpen == OpenCamera /\ cam' = "open"

ScenarioRead ==
    /\ Len(log) = frameNo
    /\ clock = Epoch + frameNo * Debounce
    /\ ReadFrame(Len(Script))

ScenarioDetect == Detect({ <<Rect(8)>>, <<Rect(8), Rect(44)>> })

ScenarioFace ==
    /\ ProcessFace(OpenAmounts, PixelCounts, {<<11, 10>>}, {"none"})
    /\ k = 1 => faces'[1].tongue = Script[frameNo]

ScenarioPublish == SortStep \/ Acquire \/ PublishSlot \/ PublishPreview

ScenarioLoop == LoopTest \/ (ShowStep /\ pc' = "loop")

ScenarioPoll ==
    /\ Len(log) < frameNo
    /\ preview = frameNo
    /\ pc = "loop"
    /\ Consume(0)
    /\ log' = Append(log, ConsumeRet(0, clock))

ScenarioTick ==
    /\ Len(log) = frameNo
    /\ Tick(Epoch + frameNo * Debounce)

NextScenario ==
    \/ ScenarioStart
    \/ ScenarioOpen
    \/ ScenarioLoop
    \/ ScenarioRead
    \/ ScenarioDetect
    \/ ScenarioFace
    \/ ScenarioPublish
    \/ ScenarioPoll
    \/ ScenarioTick

SpecScenario == InitScenario /\ [][NextScenario]_vars

\* SpecDisabled: cv2 or mediapipe could not be imported (TONGUE_DEPS_OK is
\* False); the consumer makes up to MaxCalls facade calls, each logged with
\* what it returned
InitDisabled == InitWith({FALSE}, {DefaultFracNum}, {FALSE})

DisabledStart ==
    /\ Len(log) < MaxCalls
    /\ StartCall
    /\ log' = Append(log, <<"start", StartRet>>)

DisabledStop ==
    /\ Len(log) < MaxCalls
    /\ StopCall
    /\ log' = Append(log, <<"stop", StopRet>>)

DisabledGetState ==
    /\ Len(log) < MaxCalls
    /\ \E i \in Slots : GetStateCall(i) /\ log' = Append(log, <<"get_state", GetStateRet(i)>>)

DisabledGetDirection ==
    /\ Len(log) < MaxCalls
    /\ \E i \in Slots :
         GetDirectionCall(i) /\ log' = Append(log, <<"get_direction", GetDirectionRet(i)>>)

DisabledConsume ==
    /\ Len(log) < MaxCalls
    /\ \E i \in Slots :
         Consume(i) /\ log' = Append(log, <<"consume_rising_edge", ConsumeRet(i, clock)>>)

DisabledGetPreview ==
    /\ Len(log) < MaxCalls
    /\ GetPreviewCall
    /\ log' = Append(log, <<"get_preview_rgb", GetPreviewRet>>)

NextDisabled ==
    \/ DisabledStart
    \/ DisabledStop
    \/ DisabledGetState
    \/ DisabledGetDirection
    \/ DisabledConsume
    \/ DisabledGetPreview

SpecDisabled == InitDisabled /\ [][NextDisabled]_vars

\* SpecStop: the lifecycle with a worker that may stay for ever in any of its
\* steps (a blocking cap.read() among them); the consumer's join(timeout=1.0)
\* returns when the timeout expires at the latest
InitStop == InitWith({TRUE}, {DefaultFracNum}, {FALSE})

NextStop ==
    \/ Start
    \/ Stop
    \/ JoinReturn
    \/ WorkerSteps
    \/ ReadFrame(PubFrames)
    \/ Detect({ <<>>, <<Rect(8)>> })
    \/ ProcessFace({MinOpen}, {<<6, 100>>}, {<<11, 10>>}, {"none"})

SpecStop == InitStop /\ [][NextStop]_vars /\ WF_vars(JoinReturn)

\* SpecCancel: SpecStop with a worker thread that is scheduled and whose
\* capture reads return: it takes a step whenever it can
WorkerRun ==
    \/ WorkerSteps
    \/ ReadFrame(PubFrames)
    \/ Detect({ <<>>, <<Rect(8)>> })
    \/ ProcessFace({MinOpen}, {<<6, 100>>}, {<<11, 10>>}, {"none"})

SpecCancel == InitStop /\ [][NextStop]_vars /\ WF_vars(WorkerRun)

\* SpecClassify: _classify_direction applied to a centroid (cx, cy) within
\* Radius of the mouth center (mx, my) of a face, with a dead zone up to
\* MaxDead, and to the centroid mirrored about each axis of the center
ClassifyInputs ==
    LET b  == MouthBox(Rect(8))
        mx == (b.x0 + b.x1) \div 2
        my == (b.y0 + b.y1) \div 2
    IN  { [cx |-> mx + dx, cy |-> my + dy, mx |-> mx, my |-> my, dead_px |-> d] :
            dx \in (-Radius) .. Radius, dy \in (-Radius) .. Radius, d \in 0 .. MaxDead }

InitClassify ==
    /\ InitCore({TRUE}, {DefaultFracNum}, {FALSE})
    /\ log \in { <<a>> : a \in ClassifyInputs }

Classify ==
    /\ Len(log) = 1
    /\ LET a == log[1]
       IN  log' = Append(log,
                 [dir     |-> _classify_direction(a.cx, a.cy, a.mx, a.my, a.dead_px),
                  mirrorX |-> _classify_direction(2 * a.mx - a.cx, a.cy, a.mx, a.my, a.dead_px),
                  mirrorY |-> _classify_direction(a.cx, 2 * a.my - a.cy, a.mx, a.my, a.dead_px)])
    /\ UNCHANGED core

NextClassify == Classify

SpecClassify == InitClassify /\ [][NextClassify]_vars

\* SpecDead: the body of the face loop applied to one face with the gesture,
\* for inner-lip rectangles 8 .. MaxMouthW wide, in the frame or cut by its
\* right edge, and tongue centroids within Radius of the center of the box
DeadInputs ==
    { [r |-> [x |-> xv, y |-> 10, ww |-> wv, hh |-> 8], dx |-> dx, dy |-> dy] :
        xv \in {8, 40}, wv \in 8 .. MaxMouthW,
        dx \in (-Radius) .. Radius, dy \in (-Radius) .. Radius }

InitDead ==
    /\ InitCore({TRUE}, {DefaultFracNum}, {FALSE})
    /\ log \in { <<a>> : a \in DeadInputs }

ReadFace ==
    /\ Len(log) = 1
    /\ LET a  == log[1]
           b  == MouthBox(a.r)
           cen == << (b.x0 + b.x1) \div 2 - b.x0 + a.dx, (b.y0 + b.y1) \div 2 - b.y0 + a.dy >>
       IN  log' = Append(log, FaceReading(a.r, MinOpen, <<6, 100>>, cen, "none", fracNum))
    /\ UNCHANGED core

NextDead == ReadFace

SpecDead == InitDead /\ [][NextDead]_vars

\* SpecPresence: the body of the face loop applied to one face in the frame,
\* for lip distances around min_open_px, tongue masks of 0 .. MaxPx pixels
\* and mouth masks of 0, 1, 50 and 100 pixels, with frac_threshold 0.0 or 0.06
PresenceInputs ==
    { [open_px |-> o, tongue_px |-> t, mouth_px |-> m] :
        o \in (MinOpen - 1) .. (MinOpen + 1), t \in 0 .. MaxPx, m \in {0, 1, 50, 100} }

InitPresence ==
    /\ InitCore({TRUE}, FracNums, {FALSE})
    /\ log \in { <<a>> : a \in PresenceInputs }

ReadPresence ==
    /\ Len(log) = 1
    /\ LET a == log[1]
       IN  log' = Append(log, FaceReading(Rect(8), a.open_px, <<a.tongue_px, a.mouth_px>>,
                                          <<11, 10>>, "none", fracNum))
    /\ UNCHANGED core

NextPresence == ReadPresence

SpecPresence == InitPresence /\ [][NextPresence]_vars

\* SpecDiscard: the landmark model honours max_num_faces and reports faces
\* in the frame, partly left of it (Rect(-15): a box one pixel wide), just
\* left of it (Rect(-16): a box of width 0) and far left of it (Rect(-30));
\* every face in the frame is segmented without error
EdgeRects == { Rect(xv) : xv \in {-30, -16, -15, 8, 44} }

InitDiscard == InitWith({TRUE}, {DefaultFracNum}, {FALSE})

NextDiscard ==
    \/ Start
    \/ Stop
    \/ JoinReturn
    \/ Readers
    \/ WorkerSteps
    \/ ReadFrame(PubFrames)
    \/ Detect(SeqsUpTo(EdgeRects, MaxPlayers))
    \/ ProcessFace({MinOpen}, {<<0, 100>>, <<6, 100>>}, {<<11, 10>>}, {"none"})

SpecDiscard == InitDiscard /\ [][NextDiscard]_vars

\* SpecPair: one iteration of the consumer, begun when a frame has been
\* published: get_state(s), then either get_direction(s) or, for s = 0,
\* get_state(1), while the worker runs; log
\* holds the two calls with what they returned and the frame the value
\* returned was written from.  Every face is segmented without error and no
\* step of the worker raises.
InitPair == InitWith({TRUE}, {DefaultFracNum}, {FALSE})

PairGetState ==
    /\ Len(log) = 0
    /\ preview # NoFrame
    /\ \E s \in Slots :
         /\ GetStateCall(s)
         /\ log' = <<[call |-> "get_state", slot |-> s, ret |-> GetStateRet(s),
                      frame |-> slotFrame[s]]>>

PairGetDirection ==
    /\ Len(log) = 1
    /\ GetDirectionCall(log[1].slot)
    /\ log' = Append(log, [call |-> "get_direction", slot |-> log[1].slot,
                           ret |-> GetDirectionRet(log[1].slot), frame |-> slotFrame[log[1].slot]])

PairGetOther ==
    /\ Len(log) = 1
    /\ log[1].slot = 0
    /\ GetStateCall(1)
    /\ log' = Append(log, [call |-> "get_state", slot |-> 1, ret |-> GetStateRet(1),
                           frame |-> slotFrame[1]])

NextPair ==
    \/ Start
    \/ Stop
    \/ JoinReturn
    \/ OpenCamera
    \/ LoopTest
    \/ ReadFrame(PubFrames)
    \/ ReadFail
    \/ Detect(PlainFaces)
    \/ ProcessFace({MinOpen}, {<<0, 100>>, <<6, 100>>}, {<<11, 10>>}, {"none"})
    \/ SortStep
    \/ Acquire
    \/ PublishSlot
    \/ PublishPreview
    \/ ShowStep
    \/ Release
    \/ PairGetState
    \/ PairGetDirection
    \/ PairGetOther

SpecPair == InitPair /\ [][NextPair]_vars

\* SpecFrame: the consumer calls the accessors and polls for edges while the
\* worker runs, all within one tick of the clock; log holds the last call made, with the slot
\* it was made for, what it returned, and a bit that alternates from call
\* to call
NoCall == [call |-> "none", slot |-> 0, ret |-> FALSE, seq |-> 0]

InitFrame ==
    /\ InitCore({TRUE}, {DefaultFracNum}, {FALSE})
    /\ log = NoCall

FrameGetState ==
    \E i \in Slots :
        /\ GetStateCall(i)
        /\ log' = [call |-> "get_state", slot |-> i, ret |-> GetStateRet(i), seq |-> 1 - log.seq]

FrameGetDirection ==
    \E i \in Slots :
        /\ GetDirectionCall(i)
        /\ log' = [call |-> "get_direction", slot |-> i, ret |-> GetDirectionRet(i),
                   seq |-> 1 - log.seq]

FrameGetPreview ==
    /\ GetPreviewCall
    /\ log' = [call |-> "get_preview_rgb", slot |-> 0, ret |-> GetPreviewRet, seq |-> 1 - log.seq]

FramePoll ==
    \E i \in Slots :
        /\ Consume(i)
        /\ log' = [call |-> "consume_rising_edge", slot |-> i, ret |-> ConsumeRet(i, clock),
                   seq |-> 1 - log.seq]

NextFrame ==
    \/ Start
    \/ Stop
    \/ JoinReturn
    \/ FrameGetState
    \/ FrameGetDirection
    \/ FrameGetPreview
    \/ FramePoll
    \/ WorkerSteps
    \/ ReadFrame(PubFrames)
    \/ Detect({ <<>>, <<Rect(8)>>, <<Rect(8), Rect(44)>> })
    \/ ProcessFace({MinOpen}, {<<0, 100>>, <<6, 100>>}, {<<11, 10>>}, {"none"})

SpecFrame == InitFrame /\ [][NextFrame]_vars

\* SpecBurst: the face of slot 0 shows the gesture as BurstScript says, over
\* as many frames, while the consumer does not poll; when the last frame is
\* published the consumer calls consume_rising_edge(0) up to MaxCalls times,
\* as time passes
BurstScript == <<TRUE, FALSE, TRUE>>

InitBurst == InitWith({TRUE}, {DefaultFracNum}, {FALSE})

BurstRead == ReadFrame(Len(BurstScript))

BurstFace ==
    /\ ProcessFace(OpenAmounts, PixelCounts, {<<11, 10>>}, {"none"})
    /\ k = 1 => faces'[1].tongue = BurstScript[frameNo]

BurstPoll ==
    /\ frameNo = Len(BurstScript)
    /\ preview = frameNo
    /\ Len(log) < MaxCalls
    /\ Consume(0)
    /\ log' = Append(log, ConsumeRet(0, clock))

NextBurst ==
    \/ ScenarioStart
    \/ ScenarioOpen
    \/ ScenarioLoop
    \/ BurstRead
    \/ ScenarioDetect
    \/ BurstFace
    \/ ScenarioPublish
    \/ BurstPoll
    \/ Tick(MaxClock)

SpecBurst == InitBurst /\ [][NextBurst]_vars

\* SpecDrop: the face of slot 0 shows the gesture as BurstScript says while
\* time passes and the consumer calls consume_rising_edge(0) at any moment,
\* up to MaxCalls times; log holds, for every call, what it observed (state,
\* previous state, the time, the time of the last edge) and what it returned
DropPoll ==
    /\ Len(log) < MaxCalls
    /\ Consume(0)
    /\ log' = Append(log, [ret |-> ConsumeRet(0, clock), st |-> state[0], pv |-> prev_state[0],
                           now |-> clock, last |-> last_event_time[0]])

NextDrop ==
    \/ ScenarioStart
    \/ ScenarioOpen
    \/ ScenarioLoop
    \/ BurstRead
    \/ ScenarioDetect
    \/ BurstFace
    \/ ScenarioPublish
    \/ DropPoll
    \/ Tick(MaxClock)

SpecDrop == InitBurst /\ [][NextDrop]_vars

\* SpecNull: a detector whose dependencies are missing, or whose dependencies
\* are there and whose camera cannot be opened; the consumer makes up to
\* MaxCalls facade calls, for the slots and for an index past the last slot;
\* log holds each call with the value it returned and the error it raised
Indices == 0 .. MaxPlayers

\* self._state[i], self._direction[i], self._prev_state[i] raise IndexError
IndexRaises(i) == enabled /\ i \notin Slots

IndexErr(i) == IF IndexRaises(i) THEN "IndexError" ELSE "ok"

InitNull == InitWith(BOOLEAN, {DefaultFracNum}, {FALSE})

NullOpen == OpenCamera /\ cam' = "failed"

NullStart ==
    /\ Len(log) < MaxCalls
    /\ StartCall
    /\ log' = Append(log, [call |-> "start", ret |-> None, err |-> StartRet])

NullStop ==
    /\ Len(log) < MaxCalls
    /\ StopCall
    /\ log' = Append(log, [call |-> "stop", ret |-> None, err |-> StopRet])

NullGetState ==
    /\ Len(log) < MaxCalls
    /\ \E i \in Indices :
         /\ GetStateCall(i)
         /\ log' = Append(log, [call |-> "get_state", err |-> IndexErr(i),
                                ret |-> IF IndexRaises(i) THEN None ELSE GetStateRet(i)])

NullGetDirection ==
    /\ Len(log) < MaxCalls
    /\ \E i \in Indices :
         /\ GetDirectionCall(i)
         /\ log' = Append(log, [call |-> "get_direction", err |-> IndexErr(i),
                                ret |-> IF IndexRaises(i) THEN None ELSE GetDirectionRet(i)])

NullConsume ==
    /\ Len(log) < MaxCalls
    /\ \E i \in Indices :
         /\ IF IndexRaises(i) THEN cpc = "idle" /\ lock = "free" /\ UNCHANGED core
                              ELSE Consume(i)
         /\ log' = Append(log, [call |-> "consume_rising_edge", err |-> IndexErr(i),
                                ret |-> IF IndexRaises(i) THEN None ELSE ConsumeRet(i, clock)])

NullGetPreview ==
    /\ Len(log) < MaxCalls
    /\ GetPreviewCall
    /\ log' = Append(log, [call |-> "get_preview_rgb", err |-> "ok", ret |-> GetPreviewRet])

NextNull ==
    \/ NullOpen
    \/ NullStart
    \/ NullStop
    \/ JoinReturn
    \/ NullGetState
    \/ NullGetDirection
    \/ NullConsume
    \/ NullGetPreview

SpecNull == InitNull /\ [][NextNull]_vars

\* SpecPreview: the preview as an object.  log.heap holds the arrays that
\* exist (by identity, with their content), log.cur is the one self._preview
\* refers to (0: None), log.got the arrays get_preview_rgb has returned with
\* the content they had then.  The consumer may write into what it was given.
\* variant: get_preview_rgb returns self._preview itself
PreviewCopy_Reference(heap, cur) == [heap |-> heap, id |-> cur]

\* self._preview.copy(): a new array with the content of self._preview
PreviewCopy(heap, cur) == [heap |-> Append(heap, heap[cur]), id |-> Len(heap) + 1]

InitPreview ==
    /\ InitCore({TRUE}, {DefaultFracNum}, {FALSE})
    /\ log = [heap |-> <<>>, cur |-> 0, got |-> <<>>]

\* self._preview = cv2.cvtColor(small, ...): a new array for every frame
PreviewPublish ==
    /\ PublishPreviewStep
    /\ log' = [log EXCEPT !.heap = Append(@, frameNo), !.cur = Len(log.heap) + 1]

\* get_preview_rgb()
PreviewGet ==
    /\ Len(log.got) < MaxCopies
    /\ GetPreviewCall
    /\ IF log.cur = 0
       THEN log' = [log EXCEPT !.got = Append(@, [id |-> 0, content |-> NoFrame])]
       ELSE LET c == PreviewCopy(log.heap, log.cur)
            IN  log' = [heap |-> c.heap, cur |-> log.cur,
                        got |-> Append(log.got, [id |-> c.id, content |-> c.heap[c.id]])]

\* the consumer overwrites an array it was given; the content -n marks an
\* array overwritten when n arrays had been returned
PreviewScribble ==
    /\ \E n \in DOMAIN log.got :
         /\ log.got[n].id # 0
         /\ log.heap[log.got[n].id] >= 0
         /\ log' = [log EXCEPT !.heap[log.got[n].id] = -Len(log.got)]
    /\ UNCHANGED core

NextPreview ==
    \/ Start
    \/ Stop
    \/ JoinReturn
    \/ OpenCamera
    \/ LoopTest
    \/ ReadFrame(PubFrames)
    \/ ReadFail
    \/ Detect({ <<>>, <<Rect(8)>> })
    \/ ProcessFace({MinOpen}, {<<6, 100>>}, {<<11, 10>>}, {"none"})
    \/ SortStep
    \/ Acquire
    \/ PublishSlot
    \/ PreviewPublish
    \/ PreviewRaises
    \/ ShowStep
    \/ Release
    \/ PreviewGet
    \/ PreviewScribble

SpecPreview == InitPreview /\ [][NextPreview]_vars

(* ------------------------- claims on the edges ------------------------ *)
\* a step in which consume_rising_edge(i) returns True
EdgeReturned(i) == Len(edgeTimes'[i]) > Len(edgeTimes[i])

LastEdge(i) == edgeTimes[i][Len(edgeTimes[i])]

\* C1: consume_rising_edge(s) returns True at most once per continuous
\* true-period of state[s]: when it returns True and had returned True
\* before, state[s] has been False at some moment in between.
C1_OncePerTruePeriod ==
    [][\A i \in Slots : (EdgeReturned(i) /\ edgeTimes[i] # <<>>) => sawFalse[i]]_vars

\* two edges were returned for one slot, which is on and polled
C1_Witness ==
    \E i \in Slots : Len(edgeTimes[i]) >= 2 /\ state[i] /\ prev_state[i]

\* C2: consume_rising_edge(s) never returns True while state[s] is False,
\* whether the worker was never started, runs, failed or was stopped.
C2_NoEdgeWhileFalse ==
    [][\A i \in Slots : EdgeReturned(i) => state[i]]_vars

\* an edge was returned and the detector was stopped afterwards
C2_Witness ==
    \E i \in Slots : edgeTimes[i] # <<>> /\ stopFlag /\ ~ThreadAlive

\* C3: two consume_rising_edge(s) calls made less than debounce_s apart never
\* both return True.
C3_DebouncedEdges ==
    \A i \in Slots : \A a, b \in DOMAIN edgeTimes[i] :
        a < b => edgeTimes[i][b] - edgeTimes[i][a] >= Debounce

\* an edge was returned at this very time, state[i] went False (a poll saw
\* it) and True again: the next poll falls inside the debounce window
C3_Witness ==
    \E i \in Slots :
        /\ edgeTimes[i] # <<>> /\ clock - LastEdge(i) < Debounce
        /\ sawFalse[i] /\ state[i] /\ ~prev_state[i]
        /\ cpc = "idle" /\ lock = "free"

\* C4, as claimed: consume_rising_edge(s) returns True iff state[s] is True,
\* previous_for_edge[s] is False and at least debounce_s has elapsed since the
\* last call that returned True, an elapsed time equal to debounce_s included.
C4_EdgeIffInclusive ==
    [][\A i \in Slots : (enabled /\ ConsumeRisingEdge(i)) =>
          (EdgeReturned(i) <=>
             (/\ state[i] /\ ~prev_state[i]
              /\ (edgeTimes[i] = <<>> \/ clock - LastEdge(i) >= Debounce)))]_vars

\* C4, amended: consume_rising_edge(s) returns True iff state[s] is True,
\* previous_for_edge[s] is False and more than debounce_s has elapsed since
\* the last call that returned True, or since time 0.0 when there is none
\* (an elapsed time equal to debounce_s does not count).
C4_EdgeIffStrict ==
    [][\A i \in Slots : (enabled /\ ConsumeRisingEdge(i)) =>
          (EdgeReturned(i) <=>
             (/\ state[i] /\ ~prev_state[i]
              /\ clock - (IF edgeTimes[i] = <<>> THEN 0 ELSE LastEdge(i)) > Debounce))]_vars

\* a second edge was returned as soon as the debounce allows
C4_Witness ==
    \E i \in Slots :
        /\ Len(edgeTimes[i]) = 2
        /\ edgeTimes[i][2] - edgeTimes[i][1] = Debounce + 1

\* C23: after every call of consume_rising_edge(s), whether it returned True
\* or False, previous_for_edge[s] equals the state[s] the call observed.
C23_PrevTracksObserved ==
    [][\A i \in Slots : (enabled /\ ConsumeRisingEdge(i)) => prev_state'[i] = state[i]]_vars

\* after an edge was returned for a slot, a poll has seen its state False
C23_Witness ==
    \E i \in Slots : edgeTimes[i] # <<>> /\ ~state[i] /\ ~prev_state[i]

\* C24: edges are not buffered: however many False->True transitions the
\* worker published for a slot since the previous poll, the polls that follow
\* return True at most once for all of them together.
C24_EdgesNotBuffered ==
    Cardinality({ n \in DOMAIN log : log[n] }) <= 1

\* two transitions were published unpolled; the first poll returned True and
\* the later ones, also those made after the debounce time, did not
C24_Witness ==
    /\ Len(log) >= 3 /\ log[1]
    /\ clock - LastEdge(0) > Debounce
    /\ state[0] /\ frameNo = Len(BurstScript)

\* the n-th poll of SpecDrop found an edge inside the debounce window
Suppressed(n) == log[n].st /\ ~log[n].pv /\ ~log[n].ret

\* C37: an edge suppressed by the debounce is dropped, not deferred: when a
\* poll observes state[s] true and previous_for_edge[s] false inside the
\* debounce window and returns False, no later poll returns True for s until
\* a poll has observed state[s] false, however long state[s] stays true.
C37_SuppressedEdgeDropped ==
    \A n, m \in DOMAIN log :
        (n < m /\ Suppressed(n) /\ log[m].ret) => \E j \in (n + 1) .. (m - 1) : ~log[j].st

\* an edge was suppressed; a later poll, made when the debounce time had
\* passed and the state had been true ever since, returned False
C37_Witness ==
    \E n, m \in DOMAIN log :
        /\ n < m /\ Suppressed(n)
        /\ \A j \in n .. m : log[j].st
        /\ log[m].now - log[m].last > Debounce /\ ~log[m].ret

\* C25: after the worker processes a frame in which no subject occupies slot
\* s, the whole SlotState of s is all-false: also previous_for_edge[s].
C25_SlotStateReset ==
    \A s \in Slots : (slotFrame[s] > 0 /\ ~bound[s]) => ~prev_state[s]

\* C10: when no capture device can be opened the worker ends without raising
\* into start(), and from then on get_state is False, get_direction None,
\* consume_rising_edge False and get_preview None, for every slot.
C10_CameraFailureDisables ==
    cam = "failed" =>
        /\ pc = "cam_failed"
        /\ GetPreviewRet = NoFrame
        /\ \A i \in Slots :
             /\ GetStateRet(i) = FALSE
             /\ GetDirectionRet(i) = None
             /\ ConsumeRet(i, clock) = FALSE
             /\ edgeTimes[i] = <<>>

\* the camera failed, time has passed and stop() is waiting in its join
C10_Witness == cam = "failed" /\ clock > Epoch /\ cpc = "join"

\* C5: with the presence sequence F,F,T,T,T,F,T published for slot 0 over
\* seven frames debounce_s apart and one consume_rising_edge(0) call after
\* each publish, the calls return F,F,T,F,F,F,T.
C5_ScenarioEdges ==
    /\ Len(log) <= Len(Expected)
    /\ \A n \in DOMAIN log : log[n] = Expected[n]

\* the seventh poll has returned
C5_Witness == Len(log) = Len(Script)

\* C36: get_state, get_direction and get_preview change no detector state;
\* consume_rising_edge(s) changes only previous_for_edge[s] and, only when
\* it returns True, last_edge_time[s]: never state, direction, preview or a
\* field of another slot; and no step of the worker (nor start, stop, or the
\* passing of time) writes previous_for_edge or last_edge_time.
C36_FacadeFrame ==
    [][/\ log'.seq # log.seq =>
            /\ log'.call \in {"get_state", "get_direction", "get_preview_rgb"} =>
                  /\ <<config, snapshot, edgeVars, lock, stopFlag, worker, consumer, clock>>'
                       = <<config, snapshot, edgeVars, lock, stopFlag, worker, consumer, clock>>
            /\ log'.call = "consume_rising_edge" =>
                  /\ <<config, snapshot, lock, stopFlag, worker, consumer, clock>>'
                       = <<config, snapshot, lock, stopFlag, worker, consumer, clock>>
                  /\ \A j \in Slots \ {log'.slot} :
                       /\ prev_state'[j] = prev_state[j]
                       /\ last_event_time'[j] = last_event_time[j]
                  /\ last_event_time'[log'.slot] # last_event_time[log'.slot] => log'.ret = TRUE
       /\ log'.seq = log.seq => edgeVars' = edgeVars]_vars

\* the last call was a poll of slot 1 that returned an edge, made after an
\* edge of slot 0, with a frame published and the worker in its capture read
C36_Witness ==
    /\ log.call = "consume_rising_edge" /\ log.slot = 1 /\ log.ret = TRUE
    /\ edgeTimes[0] # <<>> /\ last_event_time[1] = clock
    /\ state[0] /\ state[1] /\ prev_state[0] /\ prev_state[1] /\ pc = "read"


(* ------------------------ claims on the snapshot ---------------------- *)
\* C6: whenever a reader can take the lock, state, direction and preview all
\* come from one frame: no snapshot is partly written, also when a step of
\* the publish fails.
C6_AtomicPublish ==
    lock = "free" => \A i \in Slots : slotFrame[i] = preview

\* C7: in every published snapshot and for every slot, direction is None
\* iff state is False.
C7_DirectionIffPresent ==
    lock = "free" => \A i \in Slots : (direction[i] = None) <=> ~state[i]

\* C26: after each publish state[s] is the presence computed in that frame
\* for the subject bound to slot s, whatever state[s], previous_for_edge[s],
\* last_edge_time[s] and debounce_s are: no smoothing, no hysteresis.
C26_StateInstantaneous ==
    pc = "publish" =>
        \A s \in Slots : (s < pi /\ s < Len(faces)) => state[s] = faces[s + 1].tongue

\* a slot that was on, with its edge consumed less than debounce_s ago, has
\* just been written off from a frame in which its subject shows no gesture
C26_Witness ==
    \E s \in Slots :
        /\ pc = "publish" /\ s < pi /\ s < Len(faces)
        /\ before.state[s] /\ ~state[s] /\ prev_state[s]
        /\ clock - last_event_time[s] < Debounce

\* C35: when one consumer iteration calls get_state(s) and then
\* get_direction(s), or get_state(0) and then get_state(1), while the worker
\* runs, the two values returned belong to the same published frame: the
\* consumer never sees state true with direction None.
C35_PairFromOneFrame ==
    Len(log) = 2 =>
        /\ log[1].frame = log[2].frame
        /\ ~(log[2].call = "get_direction" /\ log[1].ret = TRUE /\ log[2].ret = None)

(* ----------------------- claims on the assignment --------------------- *)
Located(r) == LET b == MouthBox(r) IN b.x1 > b.x0 /\ b.y1 > b.y0

Center(r) == LET b == MouthBox(r) IN (b.x0 + b.x1) \div 2

\* every subject lies in the frame and no two have the same horizontal center
DistinctCenters(lms) ==
    /\ \A a \in DOMAIN lms : Located(lms[a])
    /\ \A a, b \in DOMAIN lms : a # b => Center(lms[a]) # Center(lms[b])

\* the n-th smallest center of the subjects
NthCenter(lms, n) ==
    CHOOSE c \in { Center(lms[a]) : a \in DOMAIN lms } :
        Cardinality({ a \in DOMAIN lms : Center(lms[a]) < c }) = n - 1

C9_MissingSubjectReset ==
    \A s \in Slots : (slotFrame[s] > 0 /\ ~bound[s]) => (~state[s] /\ direction[s] = None)

\* a slot that showed a gesture with a direction has just been written from a
\* frame in which it has no subject
C9_Witness ==
    \E s \in Slots :
        /\ pc = "publish" /\ pi > s /\ ~bound[s]
        /\ before.state[s] /\ before.direction[s] # None

\* the subjects of the frame whose mouth box is not empty
Kept == SelectSeq(res, Located)

\* C34: a subject whose padded, frame-clamped mouth box has a non-positive
\* width or height occupies no slot, and the other subjects of the frame are
\* bound to slots 0, 1, ... from left to right as if it had not been
\* detected.
C34_EmptyBoxDiscarded ==
    pc \in {"acquire", "publish"} =>
        /\ Len(faces) = Len(Kept)
        /\ \A n \in DOMAIN faces :
             /\ n > 1 => faces[n - 1].mx <= faces[n].mx
             /\ Cardinality({ m \in DOMAIN faces : faces[m].mx = faces[n].mx })
                  = Cardinality({ a \in DOMAIN Kept : Center(Kept[a]) = faces[n].mx })
        /\ \A s \in Slots : (pc = "publish" /\ s < pi) => (bound[s] <=> s < Len(Kept))

\* the first of two subjects has a box of width 0: the second one is bound
\* to slot 0 and slot 1 has no subject
C34_Witness ==
    /\ pc = "publish" /\ pi = MaxPlayers
    /\ Len(res) = 2 /\ res[1] = Rect(-16) /\ Located(res[2])
    /\ bound[0] /\ ~bound[1] /\ state[0]


(* ----------------------- claims on the lifecycle ---------------------- *)
\* C11: on a detector constructed with its dependencies unavailable, every
\* sequence of start, stop, get_state, get_direction, consume_rising_edge and
\* get_preview calls raises nothing, starts no worker and returns False,
\* None, False and None respectively.
C11_DisabledFacade ==
    ~enabled =>
        /\ pc = "unstarted" /\ cam = "none" /\ cpc = "idle" /\ ~stopFlag
        /\ \A n \in DOMAIN log :
             /\ log[n][1] \in {"start", "stop"} => log[n][2] = "ok"
             /\ log[n][1] \in {"get_state", "consume_rising_edge"} => log[n][2] = FALSE
             /\ log[n][1] = "get_direction" => log[n][2] = None
             /\ log[n][1] = "get_preview_rgb" => log[n][2] = NoFrame

\* a disabled detector was started, polled for an edge, stopped and read
C11_Witness ==
    /\ ~enabled /\ Len(log) >= 4
    /\ log[1][1] = "start" /\ log[2][1] = "consume_rising_edge"
    /\ log[3][1] = "stop" /\ log[4][1] = "get_state"


\* what a call returns on a detector whose dependencies are missing
StubRet(call) ==
    CASE call \in {"get_state", "consume_rising_edge"} -> FALSE
      [] call = "get_direction" -> None
      [] call = "get_preview_rgb" -> NoFrame
      [] OTHER -> None

\* C40: a detector built with its dependencies unavailable and a detector
\* whose camera cannot be opened are observationally equivalent: every
\* sequence of start, stop, get_state(i), get_direction(i),
\* consume_rising_edge(i) and get_preview calls, in any order and for any i,
\* returns on both what it returns on the first, and raises nothing.
C40_NullObjectEquivalence ==
    \A n \in DOMAIN log : log[n].err = "ok" /\ log[n].ret = StubRet(log[n].call)

\* C12: an exception raised while one frame is processed (landmark
\* detection, segmentation, annotation, preview resize or colour conversion)
\* never terminates the worker: the frame is skipped and the loop goes on.
C12_FrameErrorSkipped == pc # "crashed"

\* C13: a subject whose mask or landmark math fails, at whatever step, is
\* skipped for that frame: it is not among the faces that are bound to slots
\* and contributes no presence; the other subjects are still bound.
C13_FailedSubjectSkipped ==
    \A n \in DOMAIN faces : ~faces[n].raised

\* C14: on a detector whose worker was already started, a second start()
\* raises nothing and changes nothing.
C14_StartIdempotent ==
    (enabled /\ ThreadStarted) => StartRet = "ok"

\* C15: stop() raises nothing in every lifecycle state: before start(), once
\* after start(), or repeatedly.
C15_StopIdempotent == StopRet = "ok"

\* C17, as claimed: once the stop flag is set the worker begins no new
\* capture read and publishes at most one more snapshot.
C17_NoReadAfterStop ==
    afterStop.reads = 0 /\ afterStop.pubs <= 1

\* C17, amended: once the stop flag is set the worker begins at most one more
\* capture read (the one whose loop test it had already passed) and publishes
\* at most one more snapshot.
C17_OneReadAfterStop ==
    afterStop.reads <= 1 /\ afterStop.pubs <= 1

\* stop() set the flag between the loop test and the read; the frame read
\* after it was published and the worker has ended
C17_Witness ==
    afterStop.reads = 1 /\ afterStop.pubs = 1 /\ pc = "done" /\ cpc = "idle"

\* C18: for every slot and in every lifecycle state (never started, running,
\* camera failed, worker ended, stopped) get_state, get_direction,
\* consume_rising_edge and get_preview return a value of their type, and the
\* lock they wait for is held only while the worker publishes.
C18_TotalFacade ==
    /\ \A i \in Slots :
         /\ GetStateRet(i) \in BOOLEAN
         /\ GetDirectionRet(i) \in Directions \cup {None}
         /\ ConsumeRet(i, clock) \in BOOLEAN
    /\ GetPreviewRet \in 0 .. frameNo
    /\ lock # "free" => (pc = "publish" /\ ThreadAlive)

\* the worker has ended on an exception after it wrote a slot, and the
\* consumer, back from stop(), polls
C18_Witness ==
    /\ pc = "crashed" /\ stopFlag /\ cpc = "idle" /\ lock = "free"
    /\ \E i \in Slots : state[i] /\ direction[i] \in Directions


\* C38, as claimed: once stop() has returned to its caller the snapshot never
\* changes again: no get_state, get_direction or get_preview result differs
\* between two calls made after stop() returned.
C38_FrozenAfterStop ==
    [][(stopFlag /\ cpc = "idle") => snapshot' = snapshot]_vars

\* C38, amended: once stop() has returned the snapshot changes only while
\* the worker, still alive after the bounded join, publishes the one frame
\* that was in flight when the flag was set; it never changes after that
\* publish, nor once the worker has ended.
C38_OneLateFrame ==
    [][(stopFlag /\ cpc = "idle" /\ snapshot' # snapshot) =>
          (ThreadAlive /\ pc = "publish" /\ afterStop.pubs = 0)]_vars

\* stop() has returned on its timeout while the worker, which began its read
\* after the flag was set, is in the middle of its publish
C38_Witness ==
    /\ stopFlag /\ cpc = "idle" /\ pc = "publish" /\ pi = 1
    /\ afterStop.reads = 1 /\ slotFrame[0] = frameNo /\ slotFrame[1] < frameNo

\* C16: stop() always returns to its caller in the end, also when the worker
\* never returns from a capture read: the join is bounded.
C16_StopReturns == (cpc = "join") ~> (cpc = "idle")

\* stop() waits in its join while the worker is inside cap.read()
C16_Witness == cpc = "join" /\ stopFlag /\ pc = "read"

(* ------------------- claims on the direction classes ------------------ *)
FlipX(d) == IF d = "LEFT" THEN "RIGHT" ELSE IF d = "RIGHT" THEN "LEFT" ELSE d

FlipY(d) == IF d = "UP" THEN "DOWN" ELSE IF d = "DOWN" THEN "UP" ELSE d

\* C19: for all offsets (dx, dy) and every dead_px >= 0, negating dx maps
\* LEFT to RIGHT and RIGHT to LEFT and leaves CENTER, UP and DOWN unchanged.
C19_HorizontalSymmetry ==
    Len(log) = 2 => log[2].mirrorX = FlipX(log[2].dir)

\* C20: for all offsets (dx, dy) and every dead_px >= 0, negating dy maps UP
\* to DOWN and DOWN to UP and leaves CENTER, LEFT and RIGHT unchanged.
C20_VerticalSymmetry ==
    Len(log) = 2 => log[2].mirrorY = FlipY(log[2].dir)

\* a centroid above the center, outside the dead zone, classified UP, and
\* its mirror image DOWN
C20_Witness ==
    /\ Len(log) = 2
    /\ log[1].cy < log[1].my /\ log[1].dead_px > 0
    /\ log[2].dir = "UP" /\ log[2].mirrorY = "DOWN"


\* C21: every offset with |dx| < dead_px and |dy| < dead_px classifies as
\* CENTER; with the other offset at 0, a non-zero offset of magnitude >=
\* dead_px on one axis classifies as the label of that axis and sign (dx > 0
\* RIGHT, dx < 0 LEFT, dy > 0 DOWN, dy < 0 UP).
C21_DeadZoneBoundary ==
    Len(log) = 2 =>
        LET dx   == log[1].cx - log[1].mx
            dy   == log[1].cy - log[1].my
            dead == log[1].dead_px
            dir  == log[2].dir
        IN  /\ (Abs(dx) < dead /\ Abs(dy) < dead) => dir = "CENTER"
            /\ (dy = 0 /\ dx # 0 /\ Abs(dx) >= dead) => dir = (IF dx > 0 THEN "RIGHT" ELSE "LEFT")
            /\ (dx = 0 /\ dy # 0 /\ Abs(dy) >= dead) => dir = (IF dy > 0 THEN "DOWN" ELSE "UP")

\* an offset exactly dead_px to the right, on the boundary of the dead zone
C21_Witness ==
    /\ Len(log) = 2
    /\ log[1].dead_px > 0 /\ log[1].cx - log[1].mx = log[1].dead_px /\ log[1].cy = log[1].my
    /\ log[2].dir = "RIGHT"


\* the reference classification: the label as a relation on the offsets
ReferenceDirection(dx, dy, dead_px) ==
    CHOOSE d \in Directions :
        LET inDead     == Abs(dx) < dead_px /\ Abs(dy) < dead_px
            horizontal == Abs(dx) > Abs(dy) \/ Abs(dx) = Abs(dy)
        IN  /\ d = "CENTER" <=> inDead
            /\ d = "RIGHT"  <=> (~inDead /\ horizontal /\ dx > 0)
            /\ d = "LEFT"   <=> (~inDead /\ horizontal /\ ~(dx > 0))
            /\ d = "DOWN"   <=> (~inDead /\ ~horizontal /\ dy > 0)
            /\ d = "UP"     <=> (~inDead /\ ~horizontal /\ ~(dy > 0))

\* C31: the classification equals the reference for all integer dx, dy and
\* dead_px in the range: CENTER when |dx| and |dy| are both inside the dead
\* zone; otherwise the axis with the larger magnitude decides (RIGHT if
\* dx > 0 else LEFT; DOWN if dy > 0 else UP), equal magnitudes being
\* horizontal.
C31_ClassifyEqualsReference ==
    Len(log) = 2 =>
        log[2].dir = ReferenceDirection(log[1].cx - log[1].mx, log[1].cy - log[1].my,
                                        log[1].dead_px)

\* a centroid up and to the left by the same amount, outside the dead zone
C31_Witness ==
    /\ Len(log) = 2
    /\ log[1].cx - log[1].mx = -(Radius) /\ log[1].cy - log[1].my = -(Radius)
    /\ log[1].dead_px > 0 /\ log[1].dead_px <= Radius
    /\ log[2].dir = "LEFT"


\* the longer side of the mouth box of the face of SpecDead
BoxSide == LET b == MouthBox(log[1].r) IN Max(b.x1 - b.x0, b.y1 - b.y0)

\* C32, as claimed: the dead zone is dir_dead_frac x max(W, H): with the
\* fraction 0.10 every centroid with 10*|dx| < max(W, H) and
\* 10*|dy| < max(W, H) is classified CENTER.
C32_DeadZoneExact ==
    Len(log) = 2 =>
        ((10 * Abs(log[1].dx) < BoxSide /\ 10 * Abs(log[1].dy) < BoxSide)
            => log[2].direction = "CENTER")

\* C32, amended: the dead zone is dir_dead_frac x max(W, H) rounded down to
\* whole pixels: with the fraction 0.10 every centroid with
\* 10*(|dx| + 1) <= max(W, H) and 10*(|dy| + 1) <= max(W, H) is classified
\* CENTER.
C32_DeadZoneFloored ==
    Len(log) = 2 =>
        ((10 * (Abs(log[1].dx) + 1) <= BoxSide /\ 10 * (Abs(log[1].dy) + 1) <= BoxSide)
            => log[2].direction = "CENTER")

\* a box 30 wide and 20 high: the centroid 2 pixels right of the center is
\* in the dead zone of 3 pixels
C32_Witness ==
    /\ Len(log) = 2
    /\ BoxSide = 30 /\ log[1].dx = 2 /\ log[1].dy = 0
    /\ log[2].tongue /\ log[2].direction = "CENTER"


(* ------------------------ claims on the presence ---------------------- *)
\* C33: for pixel counts tongue_px, mouth_px >= 0 and integer openness,
\* present is true exactly when openness >= min_open_px and
\* tongue_px / max(1, mouth_px) >= frac_threshold; a value exactly at either
\* threshold counts as present.
C33_PresenceDecision ==
    Len(log) = 2 =>
        LET a     == log[1]
            denom == IF a.mouth_px = 0 THEN 1 ELSE a.mouth_px
        IN  log[2].tongue <=>
                (~(a.open_px < MinOpen) /\ ~(a.tongue_px * FracDen < fracNum * denom))

\* openness 8 and 6 tongue pixels of 100: both exactly at the default
\* thresholds, and present
C33_Witness ==
    /\ Len(log) = 2 /\ fracNum = DefaultFracNum
    /\ log[1].open_px = MinOpen /\ log[1].tongue_px = 6 /\ log[1].mouth_px = 100
    /\ log[2].tongue


(* ------------------------ claims on the preview ----------------------- *)
\* C22: get_preview returns a copy: the worker never modifies an array it
\* has handed to the consumer, and a consumer that overwrites a returned
\* array does not change what later get_preview calls return.
C22_PreviewIsCopy ==
    /\ preview = (IF log.cur = 0 THEN NoFrame ELSE log.heap[log.cur])
    /\ \A n \in DOMAIN log.got :
         log.got[n].id # 0 =>
             \/ log.heap[log.got[n].id] = log.got[n].content
             \/ log.heap[log.got[n].id] < 0

\* the consumer overwrote the first preview it was given, then asked again
\* and was given the same frame; the worker has since published the next
C22_Witness ==
    /\ Len(log.got) >= 2
    /\ log.got[1].id # 0 /\ log.heap[log.got[1].id] = -1
    /\ log.got[2].content = log.got[1].content
    /\ preview > log.got[2].content


(* ------------------------ claims on the worker ------------------------ *)
\* C27: a failed capture read is transient: it does not end the worker, it
\* leaves state, direction and preview unchanged, and the worker goes back to
\* the test of the stop flag, from where it reads again.
C27_FailedReadTransient ==
    [][(pc = "read" /\ pc' # "read" /\ frameNo' = frameNo) =>
          (pc' = "loop" /\ snapshot' = snapshot /\ cam' = cam /\ stopFlag' = stopFlag)]_vars

\* with a frame published, a read begun after the stop flag was set has
\* failed and the worker is back at the loop test
C27_Witness ==
    pc = "loop" /\ preview > 0 /\ afterStop.reads = 1 /\ afterStop.pubs = 0

\* C28: once stop() has set the flag, if every capture read in progress
\* returns, the worker leaves its loop, ends and releases the camera.
C28_StopReleasesCamera == (stopFlag /\ cam = "open") ~> (cam = "released")

\* C39: whenever the worker has opened the camera and has ended, for whatever
\* reason (the stop flag, Esc in the debug window, or an error while a frame
\* is processed), the camera has been released.
C39_CameraReleased ==
    (ThreadStarted /\ ~ThreadAlive /\ cam \notin {"none", "failed"}) => cam = "released"

\* C29: the worker holds the lock only in its publish step, never in the
\* capture read, the landmark detection or the sleep, so that every facade
\* call can complete while the worker is anywhere else, blocked or not.
C29_ConsumerNeverBlocks ==
    /\ pc # "publish" => lock = "free"
    /\ (cpc = "idle" /\ pc # "publish") =>
          /\ ENABLED GetPreview
          /\ \A i \in Slots :
               ENABLED GetState(i) /\ ENABLED GetDirection(i) /\ ENABLED ConsumeRisingEdge(i)

\* the worker is in a capture read that delivers no frame, with a snapshot
\* published, and the consumer is about to call
C29_Witness ==
    pc = "read" /\ frameNo = MaxFrames /\ preview = frameNo /\ cpc = "idle" /\ ~stopFlag

\* C30: at most one worker exists per detector and it is the only writer of
\* state, direction and preview: _run is entered only from the never-started
\* thread, whatever start() and stop() calls are made.
C30_SingleWorker ==
    [][/\ (pc # "open" /\ pc' = "open") => pc = "unstarted"
       /\ snapshot' # snapshot => (pc = "publish" /\ lock = "worker")]_vars

\* the worker has published, was stopped and has ended; start() can be
\* called again
C30_Witness ==
    pc = "done" /\ stopFlag /\ cpc = "idle" /\ preview > 0 /\ StartRet = "RuntimeError"

=============================================================================
